---------------------------- MODULE Spec2Model ----------------------------
(***************************************************************************)
(* doorman/query.py: get_results maps a query type and a list of typed     *)
(* filters onto a paginated query over ResultLog rows, or over             *)
(* DistributedQueryResult rows reached through DistributedQueryTask rows.  *)
(*                                                                         *)
(* The store is the five tables the module imports from doorman.models.    *)
(* Rows are records carrying their primary key `id`; keys are handed out   *)
(* in sequence by the writers.  A call of get_results is one action that   *)
(* leaves its arguments in `call`, its outcome in `outcome` and the store  *)
(* lookups it made, in order, in `accessed`.                               *)
(***************************************************************************)
EXTENDS Integers, Sequences, FiniteSets

VARIABLES
    Node,                    \* set of Node ids
    ResultLog,               \* set of [id, node, action, name]
    DistributedQuery,        \* set of DistributedQuery ids
    DistributedQueryTask,    \* set of [id, node, distributed_query, status]
    DistributedQueryResult,  \* set of [id, distributed_query_task_id, distributed_query_id]
    call,                    \* arguments of the last get_results call
    outcome,                 \* what that call returned or raised
    accessed,                \* store lookups that call made, in order
    running                  \* a DISTRIBUTED call in progress, taken statement by statement

store == <<Node, ResultLog, DistributedQuery, DistributedQueryTask, DistributedQueryResult>>
vars == <<Node, ResultLog, DistributedQuery, DistributedQueryTask, DistributedQueryResult,
          call, outcome, accessed, running>>

---------------------------------------------------------------------------
(* Bounds of the exploration. *)
MaxNodes == 2
MaxLogs == 2
MaxQueries == 2
MaxTasks == 2
MaxResults == 2
MaxRows == 5
MaxFilters == 2
MaxPage == 2
MaxPerPage == 2
PagedMaxFilters == 1

(* flask_sqlalchemy's default per_page, the default of get_results. *)
DefaultPerPage == 20

---------------------------------------------------------------------------
(* QueryType and FilterType, by member name.  "OTHER" stands for any value *)
(* that is no member of QueryType.                                         *)
QueryType == {"RESULT", "DISTRIBUTED"}
FilterType == {"NODE", "QUERY", "TIMESTAMP", "ACTION", "STATUS"}

Filter(type, value) == [type |-> type, value |-> value]

Actions == {"added", "removed"}
Names == {"query1", "query2"}
(* Two of the task statuses; a status is only ever compared for equality. *)
Statuses == {"NEW", "COMPLETE"}


NoFilter == [type |-> "NONE", value |-> 0]

(* An ascending listing of a set of ids: the order the tests expect of     *)
(* `items` (rows come back in primary-key order).                          *)
RECURSIVE Ascending(_)
Ascending(S) ==
    IF S = {} THEN <<>>
    ELSE LET m == CHOOSE x \in S : \A y \in S : x <= y
         IN  <<m>> \o Ascending(S \ {m})

Min(a, b) == IF a < b THEN a ELSE b

---------------------------------------------------------------------------
(* Query objects.  A query is lazy: `.filter(column == value)` appends a   *)
(* criterion, and the rows are read only by .one(), .all() or .paginate(). *)
Criterion(column, value) == [column |-> column, value |-> value]

(* Rows of `table` that satisfy every criterion of `query` (AND). *)
Rows(table, query) ==
    {r \in table : \A k \in 1..Len(query) : r[query[k].column] = query[k].value}

Ids(rows) == {r.id : r \in rows}

Lookup(table, key) == [table |-> table, key |-> key]

(* The state of a filter loop: the query built so far, the lookups made,   *)
(* and the exception that ended the loop, if one did.                      *)
LoopStart ==
    [query |-> <<>>, accessed |-> <<>>,
     raised |-> "none", msg |-> "", arg |-> NoFilter, at |-> 0]

Raise(st, exc, msg, arg, i) ==
    [st EXCEPT !.raised = exc, !.msg = msg, !.arg = arg, !.at = i]

(* query = query.filter(column == value) *)
AndFilterDropped(st, column, value) == st

AndFilterOnlyLast(st, column, value) ==
    [st EXCEPT !.query = <<Criterion(column, value)>>]

AndFilter(st, column, value) ==
    [st EXCEPT !.query = Append(@, Criterion(column, value))]

(* .one(): whether a row with that id is there; NoResultFound is raised    *)
(* when it is not.                                                         *)
First(ids, value) == TRUE

One(ids, value) == value \in ids

(* Node.query.filter(Node.id == value).one(): the lookup is made. *)
NodeOne(st, value) ==
    [st EXCEPT !.accessed = Append(@, Lookup("Node", value))]

DistributedQueryOne(st, value) ==
    [st EXCEPT !.accessed = Append(@, Lookup("DistributedQuery", value))]

RECURSIVE get_resultlog_results(_, _, _)
RECURSIVE distributed_task_query(_, _, _)

(* The TIMESTAMP branch of both loops: raise NotImplementedError. *)
TimestampIgnored(query_type, filters, i, st) ==
    IF query_type = "RESULT" THEN get_resultlog_results(filters, i + 1, st)
    ELSE distributed_task_query(filters, i + 1, st)

TimestampFilter(query_type, filters, i, st) ==
    Raise(st, "NotImplementedError", "", NoFilter, i)

(* The else branch of get_resultlog_results. *)
ResultLogUnknownSkipped(filters, i, st) ==
    get_resultlog_results(filters, i + 1, st)

ResultLogUnknown(filters, i, st) ==
    Raise(st, "ValueError", "Unknown filter type for ResultLog", filters[i], i)

(* The else branch of get_distributed_results. *)
DistributedUnknownNamesFirst(filters, i, st) ==
    Raise(st, "ValueError", "Unknown filter type for DistributedQuery", filters[1], i)

DistributedUnknown(filters, i, st) ==
    Raise(st, "ValueError", "Unknown filter type for DistributedQuery", filters[i], i)

(* The QUERY branch of get_resultlog_results: ResultLog.id == value, with  *)
(* no lookup.                                                              *)
ResultLogQueryOne(filters, i, st) ==
    LET st1 == [st EXCEPT !.accessed = Append(@, Lookup("ResultLog", filters[i].value))] IN
    IF \E r \in ResultLog : r.id = filters[i].value
    THEN get_resultlog_results(filters, i + 1, AndFilter(st1, "id", filters[i].value))
    ELSE Raise(st1, "NoResultFound", "", NoFilter, i)

ResultLogQuery(filters, i, st) ==
    get_resultlog_results(filters, i + 1, AndFilter(st, "id", filters[i].value))

(* get_resultlog_results: one pass over the filters, in order. *)
get_resultlog_results(filters, i, st) ==
    IF i > Len(filters) THEN st
    ELSE LET filter == filters[i] IN
         CASE filter.type = "NODE" ->
                LET st1 == NodeOne(st, filter.value) IN
                IF One(Node, filter.value)
                THEN get_resultlog_results(filters, i + 1,
                                           AndFilter(st1, "node", filter.value))
                ELSE Raise(st1, "NoResultFound", "", NoFilter, i)
           [] filter.type = "QUERY" ->
                ResultLogQuery(filters, i, st)
           [] filter.type = "TIMESTAMP" ->
                TimestampFilter("RESULT", filters, i, st)
           [] filter.type = "ACTION" ->
                get_resultlog_results(filters, i + 1,
                                      AndFilter(st, "action", filter.value))
           [] OTHER ->
                ResultLogUnknown(filters, i, st)

(* The filter loop of get_distributed_results: it builds a query over      *)
(* DistributedQueryTask.                                                   *)
distributed_task_query(filters, i, st) ==
    IF i > Len(filters) THEN st
    ELSE LET filter == filters[i] IN
         CASE filter.type = "NODE" ->
                LET st1 == NodeOne(st, filter.value) IN
                IF One(Node, filter.value)
                THEN distributed_task_query(filters, i + 1,
                                            AndFilter(st1, "node", filter.value))
                ELSE Raise(st1, "NoResultFound", "", NoFilter, i)
           [] filter.type = "QUERY" ->
                LET st1 == DistributedQueryOne(st, filter.value) IN
                IF One(DistributedQuery, filter.value)
                THEN distributed_task_query(filters, i + 1,
                                            AndFilter(st1, "distributed_query", filter.value))
                ELSE Raise(st1, "NoResultFound", "", NoFilter, i)
           [] filter.type = "TIMESTAMP" ->
                TimestampFilter("DISTRIBUTED", filters, i, st)
           [] filter.type = "STATUS" ->
                distributed_task_query(filters, i + 1,
                                       AndFilter(st, "status", filter.value))
           [] OTHER ->
                DistributedUnknown(filters, i, st)

(* ids = [x.id for x in query.all()] *)
TaskIds(query) == Ids(Rows(DistributedQueryTask, query))

(* DistributedQueryResult rows whose distributed_query_task_id is in ids. *)
ResultsAll(ids) == DistributedQueryResult

ResultsOfSameQuery(ids) ==
    {r \in DistributedQueryResult :
        \E t \in DistributedQueryTask :
            t.id \in ids /\ t.distributed_query = r.distributed_query_id}

ResultsIn(ids) == {r \in DistributedQueryResult : r.distributed_query_task_id \in ids}

(* get_distributed_results: the loop, then the task ids, then the results  *)
(* query.  `rows` is the set the returned query selects.                   *)
get_distributed_results(filters) ==
    LET st == distributed_task_query(filters, 1, LoopStart) IN
    IF st.raised # "none" THEN [st |-> st, rows |-> {}]
    ELSE [st   |-> [st EXCEPT !.accessed = Append(@, Lookup("DistributedQueryTask", 0))],
          rows |-> ResultsIn(TaskIds(st.query))]

---------------------------------------------------------------------------
(* query.paginate(page, per_page) of the store: the rows in ascending id   *)
(* order, cut to the page.                                                 *)
paginate(ids, page, per_page) ==
    IF page < 1 \/ per_page < 1
    THEN [raised |-> "InvalidPagination", items |-> <<>>, total |-> 0]
    ELSE LET all == Ascending(ids)
             lo  == (page - 1) * per_page + 1
             hi  == Min(Len(all), page * per_page)
         IN  [raised |-> "none", items |-> SubSeq(all, lo, hi), total |-> Len(all)]

Failed(st) ==
    [returned |-> FALSE, raised |-> st.raised, msg |-> st.msg, arg |-> st.arg,
     at |-> st.at, rows |-> {}, items |-> <<>>, total |-> 0, accessed |-> st.accessed]

PaginatedSwapped(table, st, ids, page, per_page) ==
    LET p == paginate(ids, per_page, page) IN
    [returned |-> p.raised = "none", raised |-> p.raised, msg |-> "", arg |-> NoFilter,
     at |-> 0, rows |-> IF p.raised = "none" THEN ids ELSE {},
     items |-> p.items, total |-> p.total,
     accessed |-> Append(st.accessed, Lookup(table, 0))]

Paginated(table, st, ids, page, per_page) ==
    LET p == paginate(ids, page, per_page) IN
    [returned |-> p.raised = "none", raised |-> p.raised, msg |-> "", arg |-> NoFilter,
     at |-> 0, rows |-> IF p.raised = "none" THEN ids ELSE {},
     items |-> p.items, total |-> p.total,
     accessed |-> Append(st.accessed, Lookup(table, 0))]

(* The `filters` argument: None (the default), or a list of filters. *)
None == [is_none |-> TRUE, list |-> <<>>]
List(fs) == [is_none |-> FALSE, list |-> fs]

(* The else branch of get_results: raise ValueError('Unknown query type'). *)
UnknownQueryTypeAsResult(fs, page, per_page) ==
    LET st == get_resultlog_results(fs, 1, LoopStart) IN
    IF st.raised # "none" THEN Failed(st)
    ELSE Paginated("ResultLog", st, Ids(Rows(ResultLog, st.query)), page, per_page)

UnknownQueryType(fs, page, per_page) ==
    Failed(Raise(LoopStart, "ValueError", "Unknown query type", NoFilter, 0))

(* get_results. *)
get_results(query_type, filters, page, per_page) ==
    LET fs == IF filters.is_none THEN <<>> ELSE filters.list IN
    CASE query_type = "RESULT" ->
           LET st == get_resultlog_results(fs, 1, LoopStart) IN
           IF st.raised # "none" THEN Failed(st)
           ELSE Paginated("ResultLog", st, Ids(Rows(ResultLog, st.query)), page, per_page)
      [] query_type = "DISTRIBUTED" ->
           LET d == get_distributed_results(fs) IN
           IF d.st.raised # "none" THEN Failed(d.st)
           ELSE Paginated("DistributedQueryResult", d.st, Ids(d.rows), page, per_page)
      [] OTHER ->
           UnknownQueryType(fs, page, per_page)

---------------------------------------------------------------------------
(* The arguments the calls are drawn from. *)
FilterValues(type) ==
    CASE type = "NODE" -> 1..MaxNodes
      [] type = "QUERY" -> 1..MaxQueries
      [] type = "TIMESTAMP" -> {0}
      [] type = "ACTION" -> Actions
      [] type = "STATUS" -> Statuses

Filters == UNION {{Filter(t, v) : v \in FilterValues(t)} : t \in FilterType}

FilterSeqs(n) == UNION {[1..k -> Filters] : k \in 0..n}

NoCall == [query_type |-> "NONE", filters |-> None, page |-> 0, per_page |-> 0]
NoOutcome == [f \in DOMAIN Failed(LoopStart) \ {"accessed"} |-> Failed(LoopStart)[f]]

(* No call is in progress. *)
NotRunning == [pc |-> "idle", filters |-> None, st |-> LoopStart, ids |-> {}]

Init ==
    /\ Node = {}
    /\ ResultLog = {}
    /\ DistributedQuery = {}
    /\ DistributedQueryTask = {}
    /\ DistributedQueryResult = {}
    /\ call = NoCall
    /\ outcome = NoOutcome
    /\ accessed = <<>>
    /\ running = NotRunning

(* The store is written between calls: a call is one action, and its      *)
(* outcome stays until the caller takes it.                                *)
Idle == call = NoCall
UnchangedCall == UNCHANGED <<call, outcome, accessed, running>>

(* The rows the store holds, nodes aside. *)
StoredRows ==
    Cardinality(ResultLog) + Cardinality(DistributedQuery)
      + Cardinality(DistributedQueryTask) + Cardinality(DistributedQueryResult)

(* A node enrols. *)
AddNode ==
    /\ Idle
    /\ Cardinality(Node) < MaxNodes
    /\ Node' = Node \cup {Cardinality(Node) + 1}
    /\ UNCHANGED <<ResultLog, DistributedQuery, DistributedQueryTask, DistributedQueryResult>>
    /\ UnchangedCall

(* ResultLog.create(name, action, columns, node) *)
AddResultLog ==
    /\ Idle
    /\ Cardinality(ResultLog) < MaxLogs
    /\ StoredRows < MaxRows
    /\ \E n \in Node, a \in Actions, nm \in Names :
         ResultLog' = ResultLog \cup
            {[id |-> Cardinality(ResultLog) + 1, node |-> n, action |-> a, name |-> nm]}
    /\ UNCHANGED <<Node, DistributedQuery, DistributedQueryTask, DistributedQueryResult>>
    /\ UnchangedCall

(* add_distributed: one DistributedQuery and a NEW task for each chosen    *)
(* node, in the order of the list (a node may be listed twice).            *)
NewTasks(nodes, q) ==
    {[id |-> Cardinality(DistributedQueryTask) + k, node |-> nodes[k],
      distributed_query |-> q, status |-> "NEW"] : k \in 1..Len(nodes)}

add_distributed ==
    /\ Idle
    /\ Cardinality(DistributedQuery) < MaxQueries
    /\ StoredRows < MaxRows
    /\ \E k \in 0..Min(MaxTasks - Cardinality(DistributedQueryTask), MaxRows - StoredRows - 1) :
       \E nodes \in [1..k -> Node] :
         LET q == Cardinality(DistributedQuery) + 1 IN
         /\ DistributedQuery' = DistributedQuery \cup {q}
         /\ DistributedQueryTask' = DistributedQueryTask \cup NewTasks(nodes, q)
    /\ UNCHANGED <<Node, ResultLog, DistributedQueryResult>>
    /\ UnchangedCall

(* task.status = ...; task.save() *)
SetTaskStatus ==
    /\ Idle
    /\ \E t \in DistributedQueryTask, s \in Statuses :
         /\ s # t.status
         /\ DistributedQueryTask' = (DistributedQueryTask \ {t}) \cup {[t EXCEPT !.status = s]}
    /\ UNCHANGED <<Node, ResultLog, DistributedQuery, DistributedQueryResult>>
    /\ UnchangedCall

(* DistributedQueryResult.create(columns, distributed_query_task, distributed_query) *)
AddDistributedResult ==
    /\ Idle
    /\ Cardinality(DistributedQueryResult) < MaxResults
    /\ StoredRows < MaxRows
    /\ \E t \in DistributedQueryTask, q \in DistributedQuery :
         DistributedQueryResult' = DistributedQueryResult \cup
            {[id |-> Cardinality(DistributedQueryResult) + 1,
              distributed_query_task_id |-> t.id, distributed_query_id |-> q]}
    /\ UNCHANGED <<Node, ResultLog, DistributedQuery, DistributedQueryTask>>
    /\ UnchangedCall

(* The Node rows a call adds to the session: none, as the module reads    *)
(* the store through .one(), .all() and .paginate() only and never adds,  *)
(* deletes or commits.                                                     *)
NodesCreatedWhenAbsent(query_type, filters) ==
    LET fs == IF filters.is_none THEN <<>> ELSE filters.list IN
    {fs[k].value : k \in {j \in 1..Len(fs) : fs[j].type = "NODE"}} \ Node

NodesAdded(query_type, filters) == {}

(* A call of get_results, taken as one step. *)
Call(query_type, filters, page, per_page) ==
    LET r == get_results(query_type, filters, page, per_page) IN
    /\ Idle
    /\ call' = [query_type |-> query_type, filters |-> filters,
                page |-> page, per_page |-> per_page]
    /\ outcome' = [f \in DOMAIN r \ {"accessed"} |-> r[f]]
    /\ accessed' = r.accessed
    /\ Node' = Node \cup NodesAdded(query_type, filters)
    /\ UNCHANGED <<ResultLog, DistributedQuery, DistributedQueryTask,
                   DistributedQueryResult, running>>

FiltersArgs(n) == {None} \cup {List(fs) : fs \in FilterSeqs(n)}

(* Calls with the default page and per_page, as the tests make them. *)
CallDefault(query_type) ==
    \E filters \in FiltersArgs(MaxFilters) : Call(query_type, filters, 1, DefaultPerPage)

GetResults == \E qt \in QueryType : CallDefault(qt)

GetResultLog == CallDefault("RESULT")

GetDistributed == CallDefault("DISTRIBUTED")

(* Calls that pass page and per_page. *)
GetResultsPaged ==
    \E qt \in QueryType, filters \in FiltersArgs(PagedMaxFilters),
       page \in 0..MaxPage, per_page \in 0..MaxPerPage :
        Call(qt, filters, page, per_page)

(* Calls whose query_type is no member of QueryType. *)
GetResultsUnknown ==
    \E filters \in FiltersArgs(MaxFilters), page \in 0..MaxPage, per_page \in 0..MaxPerPage :
        Call("OTHER", filters, page, per_page)

(* A DISTRIBUTED call taken statement by statement, while the writers go  *)
(* on: the filter loop with its lookups, then query.all() for the task    *)
(* ids, then paginate over the results query.                              *)
DistributedLoop ==
    /\ Idle
    /\ running.pc = "idle"
    /\ \E filters \in FiltersArgs(MaxFilters) :
         LET fs == IF filters.is_none THEN <<>> ELSE filters.list
             st == distributed_task_query(fs, 1, LoopStart)
             r  == Failed(st)
         IN  IF st.raised # "none"
             THEN /\ call' = [query_type |-> "DISTRIBUTED", filters |-> filters,
                              page |-> 1, per_page |-> DefaultPerPage]
                  /\ outcome' = [f \in DOMAIN r \ {"accessed"} |-> r[f]]
                  /\ accessed' = r.accessed
                  /\ running' = [NotRunning EXCEPT !.pc = "raised"]
             ELSE /\ running' = [pc |-> "all", filters |-> filters, st |-> st, ids |-> {}]
                  /\ UNCHANGED <<call, outcome, accessed>>
    /\ UNCHANGED store

(* ids = [x.id for x in query.all()] *)
DistributedAll ==
    /\ running.pc = "all"
    /\ running' = [running EXCEPT
                     !.pc = "paginate",
                     !.ids = TaskIds(running.st.query),
                     !.st.accessed = Append(@, Lookup("DistributedQueryTask", 0))]
    /\ UNCHANGED <<call, outcome, accessed>>
    /\ UNCHANGED store

(* The ids bound into in_(ids): the list query.all() gave, not the task   *)
(* query itself.                                                           *)
in_subquery(query, ids) == TaskIds(query)

in_(query, ids) == ids

(* results = DistributedQueryResult.query.filter(...in_(ids)), and          *)
(* query.paginate(page=page, per_page=per_page) of get_results.            *)
DistributedPaginate ==
    /\ running.pc = "paginate"
    /\ LET rows == ResultsIn(in_(running.st.query, running.ids))
           r    == Paginated("DistributedQueryResult", running.st, Ids(rows),
                             1, DefaultPerPage)
       IN  /\ call' = [query_type |-> "DISTRIBUTED", filters |-> running.filters,
                       page |-> 1, per_page |-> DefaultPerPage]
           /\ outcome' = [f \in DOMAIN r \ {"accessed"} |-> r[f]]
           /\ accessed' = r.accessed
    /\ running' = [running EXCEPT !.pc = "done"]
    /\ UNCHANGED store

(* The caller takes the outcome. *)
Return ==
    /\ ~Idle
    /\ call' = NoCall
    /\ outcome' = NoOutcome
    /\ accessed' = <<>>
    /\ running' = NotRunning
    /\ UNCHANGED store

Next ==
    \/ AddNode
    \/ AddResultLog
    \/ add_distributed
    \/ SetTaskStatus
    \/ AddDistributedResult
    \/ GetResults
    \/ Return

Spec == Init /\ [][Next]_vars

(* The ResultLog side alone. *)
NextResult ==
    \/ AddNode
    \/ AddResultLog
    \/ GetResultLog
    \/ Return

SpecResult == Init /\ [][NextResult]_vars

(* The distributed side alone. *)
NextDistributed ==
    \/ AddNode
    \/ add_distributed
    \/ SetTaskStatus
    \/ AddDistributedResult
    \/ GetDistributed
    \/ Return

SpecDistributed == Init /\ [][NextDistributed]_vars

(* Calls that pass page and per_page. *)
NextPaged ==
    \/ AddNode
    \/ AddResultLog
    \/ add_distributed
    \/ SetTaskStatus
    \/ AddDistributedResult
    \/ GetResultsPaged
    \/ Return

SpecPaged == Init /\ [][NextPaged]_vars

(* Calls with an unknown query type, over stores of nodes and result logs. *)
NextUnknown ==
    \/ AddNode
    \/ AddResultLog
    \/ GetResultsUnknown
    \/ Return

SpecUnknown == Init /\ [][NextUnknown]_vars

(* A DISTRIBUTED call interleaved with the writers of the distributed side. *)
NextInterleaved ==
    \/ AddNode
    \/ add_distributed
    \/ SetTaskStatus
    \/ AddDistributedResult
    \/ DistributedLoop
    \/ DistributedAll
    \/ DistributedPaginate
    \/ Return

SpecInterleaved == Init /\ [][NextInterleaved]_vars

---------------------------------------------------------------------------
(* What the properties speak of: the held call, its filters, and the       *)
(* validity table of filter kinds per query kind.                          *)
Called == call.query_type \in QueryType
CallFilters == IF call.filters.is_none THEN <<>> ELSE call.filters.list

ValidTypes(query_type) ==
    IF query_type = "RESULT" THEN {"NODE", "QUERY", "TIMESTAMP", "ACTION"}
    ELSE {"NODE", "QUERY", "TIMESTAMP", "STATUS"}

Legal(f) == f.type \in ValidTypes(call.query_type)

(* The filter asks for an identity lookup, and in which table. *)
LooksUp(f) ==
    f.type = "NODE" \/ (f.type = "QUERY" /\ call.query_type = "DISTRIBUTED")
LookupOf(f) == Lookup(IF f.type = "NODE" THEN "Node" ELSE "DistributedQuery", f.value)

Resolves(f) ==
    CASE f.type = "NODE" -> f.value \in Node
      [] f.type = "QUERY" /\ call.query_type = "DISTRIBUTED" -> f.value \in DistributedQuery
      [] OTHER -> TRUE

(* The loop gets past the filter. *)
Passes(f) == Legal(f) /\ f.type # "TIMESTAMP" /\ Resolves(f)

Positions == 1..Len(CallFilters)
HasInvalid == \E k \in Positions : ~Legal(CallFilters[k])
FirstInvalid == CHOOSE k \in Positions :
    ~Legal(CallFilters[k]) /\ \A j \in 1..(k - 1) : Legal(CallFilters[j])
HasTimestamp == \E k \in Positions : CallFilters[k].type = "TIMESTAMP"
FirstTimestamp == CHOOSE k \in Positions :
    CallFilters[k].type = "TIMESTAMP" /\ \A j \in 1..(k - 1) : CallFilters[j].type # "TIMESTAMP"

(* C1, as stated: a call whose filters hold one of a kind invalid for the  *)
(* query kind makes no store access at all, whatever precedes that filter. *)
C1_NoStoreAccess ==
    (Called /\ HasInvalid) => accessed = <<>>

(* C1, amended: such a call queries no ResultLog, task or result rows; the *)
(* only store accesses are the identity lookups of the NODE filters (and,  *)
(* under DISTRIBUTED, QUERY filters) that precede the first invalid        *)
(* filter, so with no such filter before it there is no store access.      *)
C1_OnlyEarlierLookups ==
    (Called /\ HasInvalid) =>
        /\ \A j \in 1..Len(accessed) :
             \E i \in 1..(FirstInvalid - 1) :
                LooksUp(CallFilters[i]) /\ accessed[j] = LookupOf(CallFilters[i])
        /\ Len(accessed) < FirstInvalid
        /\ (\A i \in 1..(FirstInvalid - 1) : ~LooksUp(CallFilters[i])) => accessed = <<>>

C1_Witness ==
    /\ Called /\ HasInvalid /\ FirstInvalid = 2
    /\ LooksUp(CallFilters[1]) /\ Resolves(CallFilters[1])
    /\ accessed = <<LookupOf(CallFilters[1])>>
    /\ ~outcome.returned

(* C2, as stated: a call whose filters hold an invalid one fails with the  *)
(* unknown-filter-type ValueError naming the first invalid filter,         *)
(* whatever precedes it.                                                   *)
UnknownFilterError(k) ==
    /\ ~outcome.returned
    /\ outcome.raised = "ValueError"
    /\ outcome.msg = (IF call.query_type = "RESULT"
                      THEN "Unknown filter type for ResultLog"
                      ELSE "Unknown filter type for DistributedQuery")
    /\ outcome.at = k
    /\ outcome.arg = CallFilters[k]

C2_AlwaysUnknownFilter ==
    (Called /\ HasInvalid) => UnknownFilterError(FirstInvalid)

(* C2, amended: such a call always fails; it fails with the unknown-       *)
(* filter-type ValueError naming the first invalid filter when every       *)
(* filter before that one passes (is no TIMESTAMP filter and names an      *)
(* existing record), and otherwise with the error of the earliest filter   *)
(* that does not pass.                                                     *)
C2_UnknownFilterUnlessEarlierFails ==
    (Called /\ HasInvalid) =>
        /\ ~outcome.returned
        /\ outcome.raised # "none"
        /\ outcome.at \in 1..FirstInvalid
        /\ \A j \in 1..(outcome.at - 1) : Passes(CallFilters[j])
        /\ ~Passes(CallFilters[outcome.at])
        /\ (\A j \in 1..(FirstInvalid - 1) : Passes(CallFilters[j]))
              => UnknownFilterError(FirstInvalid)

C2_Witness ==
    /\ Called /\ call.query_type = "DISTRIBUTED" /\ HasInvalid /\ FirstInvalid = 2
    /\ CallFilters[1].type = "NODE" /\ Passes(CallFilters[1])
    /\ CallFilters[2] # CallFilters[1]
    /\ UnknownFilterError(2)

(* C3: a call whose filters hold a TIMESTAMP filter returns nothing, and   *)
(* raises NotImplementedError when every filter before the first           *)
(* TIMESTAMP filter passes.                                                *)
C3_TimestampNeverNoOp ==
    (Called /\ HasTimestamp) =>
        /\ ~outcome.returned
        /\ outcome.raised # "none"
        /\ (\A j \in 1..(FirstTimestamp - 1) : Passes(CallFilters[j]))
              => (outcome.raised = "NotImplementedError" /\ outcome.at = FirstTimestamp)

C3_Witness ==
    /\ Called /\ HasTimestamp /\ FirstTimestamp = 2
    /\ Passes(CallFilters[1])
    /\ outcome.raised = "NotImplementedError"
    /\ ~outcome.returned

---------------------------------------------------------------------------
(* The call holds exactly the one filter f. *)
OnlyFilter(query_type, f) ==
    /\ call.query_type = query_type
    /\ CallFilters = <<f>>

HasFilter(f) == \E k \in Positions : CallFilters[k] = f

(* All of the filtered set is on the first page of a default call. *)
ReturnedRows(ids) ==
    /\ outcome.returned
    /\ outcome.rows = ids
    /\ outcome.items = Ascending(ids)
    /\ outcome.total = Cardinality(ids)

(* The task a result row belongs to. *)
TaskOf(r) == CHOOSE t \in DistributedQueryTask : t.id = r.distributed_query_task_id

(* C4: a DISTRIBUTED call with a STATUS filter on S returns exactly the    *)
(* result rows whose task has status S; in any successful DISTRIBUTED call *)
(* that holds the filter, a task of another status contributes no row.     *)
C4_StatusFilterExact ==
    \A S \in Statuses :
        /\ OnlyFilter("DISTRIBUTED", Filter("STATUS", S)) =>
              ReturnedRows({r.id : r \in {x \in DistributedQueryResult : TaskOf(x).status = S}})
        /\ (call.query_type = "DISTRIBUTED" /\ HasFilter(Filter("STATUS", S)) /\ outcome.returned) =>
              \A r \in DistributedQueryResult : TaskOf(r).status # S => r.id \notin outcome.rows

C4_Witness ==
    \E S \in Statuses :
        /\ OnlyFilter("DISTRIBUTED", Filter("STATUS", S))
        /\ outcome.returned
        /\ \E r1, r2 \in DistributedQueryResult :
              /\ TaskOf(r1).status = S /\ r1.id \in outcome.rows
              /\ TaskOf(r2).status # S /\ r2.id \notin outcome.rows

(* C5: a DISTRIBUTED call with a NODE filter on an existing node N returns *)
(* exactly the rows whose task is assigned to N, and with a QUERY filter   *)
(* on an existing distributed query Q exactly the rows whose task belongs  *)
(* to Q; the row's own distributed_query_id plays no part.                 *)
C5_NodeAndQueryThroughTask ==
    /\ \A N \in Node :
          OnlyFilter("DISTRIBUTED", Filter("NODE", N)) =>
             ReturnedRows({r.id : r \in {x \in DistributedQueryResult : TaskOf(x).node = N}})
    /\ \A Q \in DistributedQuery :
          OnlyFilter("DISTRIBUTED", Filter("QUERY", Q)) =>
             ReturnedRows({r.id : r \in {x \in DistributedQueryResult :
                                            TaskOf(x).distributed_query = Q}})

C5_Witness ==
    \E N \in Node :
        /\ OnlyFilter("DISTRIBUTED", Filter("NODE", N))
        /\ outcome.returned
        /\ \E r1, r2 \in DistributedQueryResult :
              /\ TaskOf(r1).node = N /\ r1.id \in outcome.rows
              /\ TaskOf(r2).node # N /\ r2.id \notin outcome.rows
              /\ TaskOf(r1).distributed_query = TaskOf(r2).distributed_query
              /\ r2.distributed_query_id = r1.distributed_query_id

(* C6: a RESULT call with a NODE filter on an existing node N returns      *)
(* exactly the ResultLog rows of node N, and with an ACTION filter on A    *)
(* exactly the rows whose action is A; in any successful RESULT call that  *)
(* holds the filter, every returned row satisfies it.                      *)
C6_ResultNodeAndAction ==
    /\ \A N \in Node :
          /\ OnlyFilter("RESULT", Filter("NODE", N)) =>
                ReturnedRows({r.id : r \in {x \in ResultLog : x.node = N}})
          /\ (call.query_type = "RESULT" /\ HasFilter(Filter("NODE", N)) /\ outcome.returned) =>
                \A r \in ResultLog : r.id \in outcome.rows => r.node = N
    /\ \A A \in Actions :
          /\ OnlyFilter("RESULT", Filter("ACTION", A)) =>
                ReturnedRows({r.id : r \in {x \in ResultLog : x.action = A}})
          /\ (call.query_type = "RESULT" /\ HasFilter(Filter("ACTION", A)) /\ outcome.returned) =>
                \A r \in ResultLog : r.id \in outcome.rows => r.action = A

C6_Witness ==
    \E N \in Node :
        /\ OnlyFilter("RESULT", Filter("NODE", N))
        /\ outcome.returned
        /\ \E r1, r2 \in ResultLog :
              /\ r1.node = N /\ r1.id \in outcome.rows
              /\ r2.node # N /\ r2.id \notin outcome.rows

(* C7: a RESULT call with a QUERY filter of value v returns exactly the    *)
(* ResultLog rows whose id is v: at most one row, none (and no error) when *)
(* no row has that id, whatever the rows' names are.                       *)
C7_ResultQueryById ==
    \A v \in FilterValues("QUERY") :
        OnlyFilter("RESULT", Filter("QUERY", v)) =>
            /\ ReturnedRows({r.id : r \in {x \in ResultLog : x.id = v}})
            /\ outcome.raised = "none"
            /\ Cardinality(outcome.rows) <= 1
            /\ accessed = <<Lookup("ResultLog", 0)>>

C7_Witness ==
    \E v \in FilterValues("QUERY") :
        /\ OnlyFilter("RESULT", Filter("QUERY", v))
        /\ outcome.returned
        /\ outcome.rows = {v}
        /\ \E r1, r2 \in ResultLog : r1.id = v /\ r2.id # v /\ r2.name = r1.name

---------------------------------------------------------------------------
(* The unrestricted record set of a query kind. *)
Unrestricted(query_type) ==
    IF query_type = "RESULT" THEN Ids(ResultLog) ELSE Ids(DistributedQueryResult)

(* What a default call with the one filter f gives. *)
Alone(f) == get_results(call.query_type, List(<<f>>), 1, DefaultPerPage)

(* The rearrangements of the call's filters. *)
Rearrangements ==
    {[k \in Positions |-> CallFilters[p[k]]] :
        p \in {q \in [Positions -> Positions] : \A a, b \in Positions : q[a] = q[b] => a = b}}

(* C8: on a successful call the filtered set is the intersection of the    *)
(* sets each filter selects alone, every rearrangement of the filters      *)
(* gives the same set, and no filters (an empty list, or None) give the    *)
(* unrestricted set.                                                       *)
C8_FiltersAndCommute ==
    (Called /\ outcome.returned) =>
        /\ \A k \in Positions : Alone(CallFilters[k]).returned
        /\ outcome.rows = {id \in Unrestricted(call.query_type) :
                              \A k \in Positions : id \in Alone(CallFilters[k]).rows}
        /\ \A fs \in Rearrangements :
              LET r == get_results(call.query_type, List(fs), call.page, call.per_page)
              IN  r.returned /\ r.rows = outcome.rows /\ r.items = outcome.items
                    /\ r.total = outcome.total
        /\ CallFilters = <<>> => outcome.rows = Unrestricted(call.query_type)

C8_Witness ==
    /\ Called /\ outcome.returned
    /\ Len(CallFilters) = 2
    /\ CallFilters[1].type # CallFilters[2].type
    /\ outcome.rows # {}
    /\ outcome.rows # Alone(CallFilters[1]).rows
    /\ Alone(CallFilters[2]).rows # Unrestricted(call.query_type)

(* C9: a NODE filter (either query kind) or, under DISTRIBUTED, a QUERY    *)
(* filter that names no record makes the call fail: nothing is returned,   *)
(* and when the loop reaches the filter it raises NoResultFound from that  *)
(* filter's lookup, which is the last store access of the call.            *)
AbsentAt(k) == LooksUp(CallFilters[k]) /\ ~Resolves(CallFilters[k])

LookupsUpTo(k) == Cardinality({j \in 1..k : LooksUp(CallFilters[j])})

C9_AbsentIdentityFails ==
    Called =>
        \A k \in Positions :
            AbsentAt(k) =>
                /\ ~outcome.returned
                /\ outcome.raised # "none"
                /\ outcome.items = <<>> /\ outcome.rows = {}
                /\ (\A j \in 1..(k - 1) : Passes(CallFilters[j])) =>
                      /\ outcome.raised = "NoResultFound"
                      /\ outcome.at = k
                      /\ Len(accessed) = LookupsUpTo(k)
                      /\ accessed[Len(accessed)] = LookupOf(CallFilters[k])

C9_Witness ==
    /\ Called /\ call.query_type = "DISTRIBUTED"
    /\ Len(CallFilters) = 2
    /\ CallFilters[1].type = "NODE" /\ Passes(CallFilters[1])
    /\ CallFilters[2].type = "QUERY" /\ AbsentAt(2)
    /\ outcome.raised = "NoResultFound" /\ outcome.at = 2
    /\ ~outcome.returned

(* C10: a call with page < 1 or per_page < 1 fails with InvalidPagination, *)
(* whatever the query kind and the filters, and returns nothing.           *)
C10_InvalidPagination ==
    (Called /\ (call.page < 1 \/ call.per_page < 1)) =>
        (~outcome.returned /\ outcome.raised = "InvalidPagination")

---------------------------------------------------------------------------
CalledUnknown == call.query_type = "OTHER"

(* C11: a call whose query_type is neither RESULT nor DISTRIBUTED fails    *)
(* with the 'Unknown query type' ValueError whatever its filters, page and *)
(* per_page are; the error is that of no filter, and the call makes no     *)
(* store access.                                                           *)
C11_UnknownQueryType ==
    CalledUnknown =>
        /\ ~outcome.returned
        /\ outcome.raised = "ValueError"
        /\ outcome.msg = "Unknown query type"
        /\ outcome.at = 0 /\ outcome.arg = NoFilter
        /\ outcome.items = <<>> /\ outcome.rows = {}
        /\ accessed = <<>>

C11_Witness ==
    /\ CalledUnknown
    /\ Len(CallFilters) = 2
    /\ CallFilters[1].type = "NODE" /\ CallFilters[1].value \notin Node
    /\ CallFilters[2].type = "TIMESTAMP"
    /\ call.page = 0
    /\ ResultLog # {}
    /\ outcome.raised = "ValueError" /\ outcome.msg = "Unknown query type"

---------------------------------------------------------------------------
(* The whole filtered set of the call: what its filters select when one    *)
(* page holds every row.                                                   *)
FilteredSet == get_results(call.query_type, call.filters, 1, DefaultPerPage).rows

(* The items of page p of the call's query, at the call's per_page. *)
PageItems(p) == get_results(call.query_type, call.filters, p, call.per_page).items

(* Pages 1..n, one after the other. *)
RECURSIVE PagesUpTo(_)
PagesUpTo(n) == IF n = 0 THEN <<>> ELSE PagesUpTo(n - 1) \o PageItems(n)

PageCount == (Cardinality(FilteredSet) + call.per_page - 1) \div call.per_page

(* The number of filtered records that come before id x. *)
Rank(x) == Cardinality({y \in FilteredSet : y < x})

(* C12: a successful call with page >= 1 and per_page >= 1 gives as total  *)
(* the size of the whole filtered set and as items the records of ranks    *)
(* (page-1)*per_page .. in ascending id order, at most per_page of them;   *)
(* pages 1, 2, ... one after the other list every filtered record once.    *)
C12_PageIsSliceOfFilteredSet ==
    (Called /\ outcome.returned /\ call.page >= 1 /\ call.per_page >= 1) =>
        LET n      == Cardinality(FilteredSet)
            offset == (call.page - 1) * call.per_page
            left   == IF n > offset THEN n - offset ELSE 0
            all    == PagesUpTo(PageCount)
        IN  /\ outcome.total = n
            /\ Len(outcome.items) = Min(call.per_page, left)
            /\ \A k \in 1..Len(outcome.items) :
                   /\ outcome.items[k] \in FilteredSet
                   /\ Rank(outcome.items[k]) = offset + k - 1
            /\ Len(all) = n
            /\ {all[k] : k \in 1..Len(all)} = FilteredSet
            /\ PageItems(PageCount + 1) = <<>>

C12_Witness ==
    /\ Called /\ outcome.returned
    /\ call.page = 2 /\ call.per_page = 1
    /\ Len(CallFilters) = 1
    /\ Cardinality(FilteredSet) = 2
    /\ outcome.total = 2
    /\ Len(outcome.items) = 1
    /\ \A x \in FilteredSet : x <= outcome.items[1]

---------------------------------------------------------------------------
(* C14: get_results only reads.  The step that makes a call, whether the   *)
(* call returns or raises, leaves all five tables as they were.            *)
C14_ReadOnly ==
    [][(Idle /\ ~Idle') => store' = store]_vars

C14_Witness ==
    /\ Called
    /\ ~outcome.returned /\ outcome.raised = "NoResultFound"
    /\ \E k \in Positions : CallFilters[k].type = "NODE" /\ CallFilters[k].value \notin Node
    /\ Node # {} /\ ResultLog # {} /\ DistributedQueryResult # {}

---------------------------------------------------------------------------
(* The interleaved call has returned; the store is as paginate read it. *)
Done == running.pc = "done" /\ outcome.returned

(* The task ids collected by query.all(). *)
Collected == running.ids

(* The tasks that satisfy the call's filters in the store as it is now. *)
MatchingNow == TaskIds(running.st.query)

(* C15: with writers between the statements of a DISTRIBUTED call, the     *)
(* rows returned are the result rows, as paginate read them, whose task id *)
(* was collected by query.all(); a row of a task that matches only since   *)
(* the collection is not returned, and a row of a collected task is        *)
(* returned though the task matches no more.                               *)
C15_RowsOfCollectedTasks ==
    Done =>
        /\ outcome.rows =
              {r.id : r \in {x \in DistributedQueryResult :
                                 x.distributed_query_task_id \in Collected}}
        /\ outcome.items = Ascending(outcome.rows)
        /\ \A r \in DistributedQueryResult :
              /\ (r.distributed_query_task_id \in MatchingNow \ Collected) => r.id \notin outcome.rows
              /\ (r.distributed_query_task_id \in Collected \ MatchingNow) => r.id \in outcome.rows

C15_Witness ==
    /\ Done
    /\ \E r1, r2 \in DistributedQueryResult :
         /\ r1.distributed_query_task_id \in Collected \ MatchingNow /\ r1.id \in outcome.rows
         /\ r2.distributed_query_task_id \in MatchingNow \ Collected /\ r2.id \notin outcome.rows

=============================================================================
